---------------------------- MODULE Spec2Model ----------------------------
(***************************************************************************)
(* A model of npm_calmarendian_date: the CalmarendianDate value type, its  *)
(* decomposition of an absolute day reference (ADR) into grand cycle,      *)
(* cycle, season, week and day, the recomposition, the two textual         *)
(* notations (GCN, CSN) and the comparison of dates.                       *)
(*                                                                         *)
(* calmarendian_date.py and c_date_config.py are modelled from their code. *)
(* date_elements.py and string_conversions.py are not part of the sources  *)
(* at hand; the element types and the DateString parser are modelled from  *)
(* the specification and from what the calling code requires of them.      *)
(***************************************************************************)
EXTENDS Integers, Sequences, FiniteSets

VARIABLES
    date,       \* the CalmarendianDate object at hand (NoDate: none exists)
    ctor,       \* how the object was constructed, and the ADR it had then
    err,        \* the error raised by the last operation ("none": it returned)
    res,        \* what the last operation was given and what it returned
    days,       \* cycle_decode: its argument
    cycle,      \* cycle_decode: its local variable
    pc          \* cycle_decode: the position in its body

vars == <<date, ctor, err, res, days, cycle, pc>>

---------------------------------------------------------------------------
(* CDateConfig *)

MIN_ADR == -1718100

MAX_ADR == 170091999

DAYS_per_GRAND_CYCLE == 1718101

CYCLES_per_GRAND_CYCLE == 700

\* floor(x / DAYS_per_CYCLE) with DAYS_per_CYCLE the float 1718101 / 700.
\* The float quotient's floor equals the exact floor of x * 700 / 1718101
\* for every x in 0 .. 1718101 (the residues the decomposition passes).
FloorDivCycle(x) == (x * CYCLES_per_GRAND_CYCLE) \div DAYS_per_GRAND_CYCLE

\* floor(x / y) for integers x and a positive integer y.
FloorDiv(x, y) == x \div y

Min(a, b) == IF a < b THEN a ELSE b

Abs(a) == IF a < 0 THEN -a ELSE a

---------------------------------------------------------------------------
(* Date element types: GrandCycle, CycleInGrandCycle, Season, Week, Day.  *)
(* Each has a validating constructor (modelled by its _valid predicate)   *)
(* and days_prior().                                                      *)

GrandCycle_days_prior(n) == (n - 1) * DAYS_per_GRAND_CYCLE

CycleInGrandCycle_valid(c) == c >= 1 /\ c <= CYCLES_per_GRAND_CYCLE

\* The days of the festival (week 51 of season 7) that ends a cycle: four,
\* seven in every seventh cycle, eight in the last cycle of a grand cycle.
\* 600 * 4 + 99 * 7 + 8 + 700 * 2450 = 1718101 = DAYS_per_GRAND_CYCLE.
festival_days(c) ==
    IF c = CYCLES_per_GRAND_CYCLE THEN 8
    ELSE IF c % 7 = 0 THEN 7
    ELSE 4

CycleInGrandCycle_days_prior(c) == ((c - 1) * 2454) + (((c - 1) \div 7) * 3)

Season_valid(s) == s >= 1 /\ s <= 7

Season_days_prior(s) == (s - 1) * 350

\* Week 51 is the terminal week: it exists in season 7 only.
Week_valid(w, s) == w >= 1 /\ (w <= 50 \/ (w = 51 /\ s = 7))

Week_days_prior(w) == (w - 1) * 7

Day_valid(d, w, c) == d >= 1 /\ d <= (IF w = 51 THEN festival_days(c) ELSE 7)

---------------------------------------------------------------------------
(* CalmarendianDate: the adr setter, composition, decomposition *)

\* The range test with MIN_ADR itself refused.
AdrInRange_exclusive(v) == ~(v <= MIN_ADR \/ v > MAX_ADR)

\* The range test of the adr setter.
AdrInRange(v) == ~(v < MIN_ADR \/ v > MAX_ADR)

\* The sum without the week's days_prior().
from_objects_sum_no_week(gc, c, s, w, d) ==
    GrandCycle_days_prior(gc) + CycleInGrandCycle_days_prior(c)
        + Season_days_prior(s) + d

\* The sum from_objects assigns to adr.
from_objects_sum(gc, c, s, w, d) ==
    GrandCycle_days_prior(gc) + CycleInGrandCycle_days_prior(c)
        + Season_days_prior(s) + Week_days_prior(w) + d

\* The validating constructors from_numbers calls, in order.
ElementsValid(gc, c, s, w, d) ==
    /\ CycleInGrandCycle_valid(c)
    /\ Season_valid(s)
    /\ Week_valid(w, s)
    /\ Day_valid(d, w, c)

NoDate ==
    [exists |-> FALSE, adr |-> 0, grand_cycle |-> 0, cycle |-> 0,
     season |-> 0, week |-> 0, day |-> 0]

MkDate(a, gc, c, s, w, d) ==
    [exists |-> TRUE, adr |-> a, grand_cycle |-> gc, cycle |-> c,
     season |-> s, week |-> w, day |-> d]

\* The loop of cycle_decode, from the value `c` of its variable cycle.
\* CycleInGrandCycle(c + 1) raises for c < 0; CycleInGrandCycle(c), which
\* elements_from_adr builds from the result, raises then as well, so the
\* scan returns c and leaves the error to that constructor.
\* The loop's condition with <= for <.
scan_continues_at_most(c, n) ==
    /\ c < CYCLES_per_GRAND_CYCLE
    /\ CycleInGrandCycle_valid(c + 1)
    /\ CycleInGrandCycle_days_prior(c + 1) <= n

\* The condition of the while loop of cycle_decode.
scan_continues(c, n) ==
    /\ c < CYCLES_per_GRAND_CYCLE
    /\ CycleInGrandCycle_valid(c + 1)
    /\ CycleInGrandCycle_days_prior(c + 1) < n

RECURSIVE cycle_scan(_, _)
cycle_scan(c, n) == IF scan_continues(c, n) THEN cycle_scan(c + 1, n) ELSE c

cycle_decode(n) == cycle_scan(FloorDivCycle(n), n)

\* elements_from_adr: the five element numbers of ADR a and whether every
\* validating constructor accepted its number.
grand_cycle_of(a) == FloorDiv(a - 1, DAYS_per_GRAND_CYCLE) + 1

season_of(residue) == Min(FloorDiv(residue - 1, 350) + 1, 7)

\* The week without its cap of 51.
week_of_uncapped(residue) == FloorDiv(residue - 1, 7) + 1

week_of(residue) == Min(FloorDiv(residue - 1, 7) + 1, 51)

elements_from_adr(a) ==
    LET gc == grand_cycle_of(a)
        r1 == a - ((gc - 1) * DAYS_per_GRAND_CYCLE)
        c  == cycle_decode(r1)
        r2 == r1 - CycleInGrandCycle_days_prior(c)
        s  == season_of(r2)
        r3 == r2 - Season_days_prior(s)
        w  == week_of(r3)
        r4 == r3 - Week_days_prior(w)
    IN  [ok |-> ElementsValid(gc, c, s, w, r4),
         grand_cycle |-> gc, cycle |-> c, season |-> s, week |-> w, day |-> r4]

\* CalmarendianDate(a): the adr setter, then elements_from_adr.
\* The result: the error ("none": an object was made) and the object.
NewDate(a) ==
    IF ~AdrInRange(a) THEN [err |-> "range", date |-> NoDate]
    ELSE LET e == elements_from_adr(a)
         IN  IF ~e.ok THEN [err |-> "range", date |-> NoDate]
             ELSE [err |-> "none",
                   date |-> MkDate(a, e.grand_cycle, e.cycle, e.season, e.week, e.day)]

\* from_numbers: the element constructors, then from_objects and its
\* assignment to adr.
from_numbers(gc, c, s, w, d) ==
    IF ~ElementsValid(gc, c, s, w, d) THEN [err |-> "range", date |-> NoDate]
    ELSE LET a == from_objects_sum(gc, c, s, w, d)
         IN  IF ~AdrInRange(a) THEN [err |-> "range", date |-> NoDate]
             ELSE [err |-> "none", date |-> MkDate(a, gc, c, s, w, d)]

---------------------------------------------------------------------------
(* Strings are sequences of one-character strings. *)

DigitChars == <<"0", "1", "2", "3", "4", "5", "6", "7", "8", "9">>

IsDigit(ch) == \E i \in 1..10 : DigitChars[i] = ch

DigitVal(ch) == (CHOOSE i \in 1..10 : DigitChars[i] = ch) - 1

\* Whether ch is a digit between the digits lo and hi: the class [lo-hi].
InClass(ch, lo, hi) == IsDigit(ch) /\ DigitVal(ch) >= lo /\ DigitVal(ch) <= hi

\* str(n) of an integer.
RECURSIVE NatToStr(_)
NatToStr(n) ==
    IF n < 10 THEN <<DigitChars[n + 1]>>
    ELSE NatToStr(n \div 10) \o <<DigitChars[(n % 10) + 1]>>

IntToStr(n) == IF n < 0 THEN <<"-">> \o NatToStr(-n) ELSE NatToStr(n)

\* The format specification ">0w": right-aligned in width w, filled with "0".
RECURSIVE PadLeft(_, _)
PadLeft(s, w) == IF Len(s) >= w THEN s ELSE PadLeft(<<"0">> \o s, w)

Fmt(n, w) == PadLeft(IntToStr(n), w)

\* int(s) of a string of digits.
RECURSIVE StrToInt(_)
StrToInt(s) ==
    IF Len(s) = 0 THEN 0
    ELSE (StrToInt(SubSeq(s, 1, Len(s) - 1)) * 10) + DigitVal(s[Len(s)])

\* str.upper(), on the letters the era markers are written with.
UpperChar(ch) ==
    CASE ch = "b" -> "B"
      [] ch = "c" -> "C"
      [] ch = "e" -> "E"
      [] ch = "h" -> "H"
      [] ch = "z" -> "Z"
      [] OTHER -> ch

Upper(s) == [i \in 1..Len(s) |-> UpperChar(s[i])]

---------------------------------------------------------------------------
(* EraMarker, absolute_cycle_ref and the renderings *)

absolute_cycle_number(gc, c) == Abs(((gc - 1) * 700) + c)

\* The era with cycle 500 left out of BH.
era_of_bh_below_500(gc, acr) ==
    IF gc <= 0 THEN "BZ"
    ELSE IF 1 <= acr /\ acr < 500 THEN "BH"
    ELSE "CE"

era_of(gc, acr) ==
    IF gc <= 0 THEN "BZ"
    ELSE IF 1 <= acr /\ acr <= 500 THEN "BH"
    ELSE "CE"

\* absolute_cycle_ref() of date d: the pair (acr, era marker).
absolute_cycle_ref(d) ==
    LET acr == absolute_cycle_number(d.grand_cycle, d.cycle)
    IN  [acr |-> acr, em |-> era_of(d.grand_cycle, acr)]

EraName(em) ==
    CASE em = "BZ" -> <<"B", "Z">>
      [] em = "BH" -> <<"B", "H">>
      [] em = "CE" -> <<"C", "E">>

\* The GCN string with the week not padded.
grand_cycle_notation_week_unpadded(d) ==
    Fmt(d.grand_cycle, 2) \o <<"-">> \o Fmt(d.cycle, 3) \o <<"-">>
        \o IntToStr(d.season) \o <<"-">> \o IntToStr(d.week) \o <<"-">>
        \o IntToStr(d.day)

\* grand_cycle_notation() of date d.
grand_cycle_notation(d) ==
    Fmt(d.grand_cycle, 2) \o <<"-">> \o Fmt(d.cycle, 3) \o <<"-">>
        \o IntToStr(d.season) \o <<"-">> \o Fmt(d.week, 2) \o <<"-">>
        \o IntToStr(d.day)

\* The era_marker argument: None, or a string.
NoneOpt == [isStr |-> FALSE, str |-> <<>>]

StrOpt(s) == [isStr |-> TRUE, str |-> s]

\* The test without era_marker.upper().
csn_shows_marker_case_sensitive(opt, em) ==
    \/ opt = StrOpt(<<"C", "E">>)
    \/ (opt = StrOpt(<<"B", "H">>) /\ em = "BH")
    \/ em = "BZ"

\* Whether common_symbolic_notation appends the era marker em under the
\* option opt.
csn_shows_marker(opt, em) ==
    LET o == IF opt.isStr THEN StrOpt(Upper(opt.str)) ELSE opt
    IN  \/ o = StrOpt(<<"C", "E">>)
        \/ (o = StrOpt(<<"B", "H">>) /\ em = "BH")
        \/ em = "BZ"

\* common_symbolic_notation(era_marker) of date d.
common_symbolic_notation(d, opt) ==
    LET ref == absolute_cycle_ref(d)
        marker == IF csn_shows_marker(opt, ref.em)
                  THEN <<" ">> \o EraName(ref.em) ELSE <<>>
    IN  Fmt(ref.acr, 3) \o <<"-">> \o IntToStr(d.season) \o <<"-">>
            \o Fmt(d.week, 2) \o <<"-">> \o IntToStr(d.day) \o marker

---------------------------------------------------------------------------
(* The date string patterns of CDateConfig and the DateString parser *)

\* GCN_DATE_STRING_RE: ^([0-9]{2})-([0-7][0-9]{2})-([1-7])-([0-5][0-9])-([1-8])$
GCN_DATE_STRING_RE(s) ==
    /\ Len(s) = 13
    /\ InClass(s[1], 0, 9) /\ InClass(s[2], 0, 9)
    /\ s[3] = "-"
    /\ InClass(s[4], 0, 7) /\ InClass(s[5], 0, 9) /\ InClass(s[6], 0, 9)
    /\ s[7] = "-"
    /\ InClass(s[8], 1, 7)
    /\ s[9] = "-"
    /\ InClass(s[10], 0, 5) /\ InClass(s[11], 0, 9)
    /\ s[12] = "-"
    /\ InClass(s[13], 1, 8)

\* The string without its leading spaces: what " *" leaves.
RECURSIVE SkipSpaces(_)
SkipSpaces(s) ==
    IF Len(s) > 0 /\ s[1] = " " THEN SkipSpaces(Tail(s)) ELSE s

IsEraToken(s) ==
    Upper(s) \in {<<"B", "Z">>, <<"B", "H">>, <<"C", "E">>}

\* The length of the first group of CSN_DATE_STRING_RE in s, ([1-9]?[0-9]{3})
\* followed by "-": 3 or 4, or 0 when the string does not start with it.
CsnAcrLen(s) ==
    IF /\ Len(s) >= 4
       /\ \A i \in 1..3 : InClass(s[i], 0, 9)
       /\ s[4] = "-"
    THEN 3
    ELSE IF /\ Len(s) >= 5
            /\ InClass(s[1], 1, 9)
            /\ \A i \in 2..4 : InClass(s[i], 0, 9)
            /\ s[5] = "-"
    THEN 4
    ELSE 0

\* CSN_DATE_STRING_RE, with re.IGNORECASE:
\* ^([1-9]?[0-9]{3})-([1-7])-([0-5][0-9])-([1-8]) *(BZ|BH|CE)?$
CSN_DATE_STRING_RE(s) ==
    LET n == CsnAcrLen(s)
    IN  /\ n > 0
        /\ Len(s) >= n + 7
        /\ InClass(s[n + 2], 1, 7)
        /\ s[n + 3] = "-"
        /\ InClass(s[n + 4], 0, 5) /\ InClass(s[n + 5], 0, 9)
        /\ s[n + 6] = "-"
        /\ InClass(s[n + 7], 1, 8)
        /\ LET rest == SkipSpaces(SubSeq(s, n + 8, Len(s)))
           IN  rest = <<>> \/ IsEraToken(rest)

\* The era token of a string that matches CSN_DATE_STRING_RE, upper case;
\* the empty string when there is none.
CsnEra(s) == Upper(SkipSpaces(SubSeq(s, CsnAcrLen(s) + 8, Len(s))))

\* The (grand cycle, cycle) pair of an absolute cycle reference and its era
\* token: a BZ reference counts cycles back from cycle 700 of grand cycle 0.
CsnGrandCycle(acr, era) ==
    LET signed == IF era = <<"B", "Z">> THEN -acr ELSE acr
        gc == FloorDiv(signed - 1, 700) + 1
    IN  [grand_cycle |-> gc, cycle |-> signed - ((gc - 1) * 700)]

\* DateString(s).elements(): the five numbers of a date string in either
\* notation; ok is FALSE when the string matches neither pattern.
DateString_elements(s) ==
    IF GCN_DATE_STRING_RE(s)
    THEN [ok |-> TRUE,
          gc |-> StrToInt(SubSeq(s, 1, 2)), c |-> StrToInt(SubSeq(s, 4, 6)),
          s |-> StrToInt(SubSeq(s, 8, 8)), w |-> StrToInt(SubSeq(s, 10, 11)),
          d |-> StrToInt(SubSeq(s, 13, 13))]
    ELSE IF CSN_DATE_STRING_RE(s)
    THEN LET n == CsnAcrLen(s)
             g == CsnGrandCycle(StrToInt(SubSeq(s, 1, n)), CsnEra(s))
         IN [ok |-> TRUE, gc |-> g.grand_cycle, c |-> g.cycle,
             s |-> StrToInt(SubSeq(s, n + 2, n + 2)),
             w |-> StrToInt(SubSeq(s, n + 4, n + 5)),
             d |-> StrToInt(SubSeq(s, n + 7, n + 7))]
    ELSE [ok |-> FALSE, gc |-> 0, c |-> 0, s |-> 0, w |-> 0, d |-> 0]

\* from_date_string(s).
from_date_string(s) ==
    LET e == DateString_elements(s)
    IN  IF ~e.ok THEN [err |-> "format", date |-> NoDate]
        ELSE from_numbers(e.gc, e.c, e.s, e.w, e.d)

\* __eq__ and __lt__ of two dates.
date_eq(d1, d2) == d1.adr = d2.adr

\* __lt__ with <= for <.
date_lt_or_equal(d1, d2) == d1.adr <= d2.adr

date_lt(d1, d2) == d1.adr < d2.adr

---------------------------------------------------------------------------
(* The inputs the operations are given *)

\* Half the width of the window of ADRs taken around each boundary.
Span == 2

\* The most ADRs past the window that the comparison's operand is taken.
CmpReach == 1

Window(a) == (a - Span)..(a + Span)

\* ADRs at the edges of the calendar's units: the two ends of the valid
\* range, the epoch, the first days of a cycle after a 4-day, a 7-day and an
\* 8-day festival, of a season, of a week, of week 51 (of 4, 7 and 8 days),
\* of the Current Era (cycle 501), of absolute cycle 10000 and of the last
\* grand cycle.
BoundaryADRs ==
    {MIN_ADR, 1, MAX_ADR,
     from_objects_sum(1, 2, 1, 1, 1),
     from_objects_sum(1, 8, 1, 1, 1),
     from_objects_sum(2, 1, 1, 1, 1),
     from_objects_sum(1, 1, 2, 1, 1),
     from_objects_sum(1, 3, 7, 51, 1),
     from_objects_sum(1, 501, 1, 1, 1),
     from_objects_sum(15, 200, 1, 1, 1),
     from_objects_sum(0, 700, 7, 51, 1),
     from_objects_sum(1, 7, 7, 51, 1),
     from_objects_sum(1, 1, 1, 2, 1),
     from_objects_sum(99, 1, 1, 1, 1)}

AdrInputs == UNION {Window(a) : a \in BoundaryADRs}

NumberInputs ==
    {0, 1, 100} \X {0, 7, 700, 701} \X {0, 1, 7, 8} \X {0, 1, 50, 51, 52}
        \X {0, 1, 4, 5, 7, 8, 9}

StringInputs ==
    {<<"7", "7", "7", "-", "7", "-", "0", "7", "-", "1", " ", "C", "E">>,
     <<"7", "7", "7", "-", "7", "-", "0", "7", "-", "1">>,
     <<"0", "1", "-", "0", "0", "1", "-", "1", "-", "0", "1", "-", "1">>,
     <<"0", "5", "0", "0", "-", "3", "-", "5", "0", "-", "7", "b", "h">>,
     <<"0", "0", "1", "-", "1", "-", "0", "1", "-", "1", " ", " ", "b", "z">>,
     <<"0", "0", "0", "-", "7", "-", "5", "1", "-", "8", " ", "B", "Z">>,
     <<"9", "9", "-", "7", "0", "0", "-", "7", "-", "5", "1", "-", "8">>,
     <<"0", "1", "-", "0", "0", "7", "-", "7", "-", "5", "1", "-", "7">>,
     <<"0", "1", "-", "0", "0", "1", "-", "7", "-", "5", "1", "-", "5">>,
     <<"0", "1", "-", "0", "0", "1", "-", "1", "-", "5", "2", "-", "1">>,
     <<"0", "1", "-", "0", "0", "1", "-", "1", "-", "0", "1", "-", "9">>,
     <<"0", "1", "-", "8", "0", "0", "-", "1", "-", "0", "1", "-", "1">>,
     <<"1", "-", "1", "-", "0", "1", "-", "1">>,
     <<"1", "0", "0", "0", "0", "-", "1", "-", "0", "1", "-", "1">>,
     <<"7", "7", "7", "-", "7", "-", "0", "7", "-", "1", " ", "A", "D">>,
     <<"0", "0", "-", "0", "0", "0", "-", "1", "-", "0", "1", "-", "1">>}

EraMarkerOptions ==
    {NoneOpt, StrOpt(<<>>), StrOpt(<<"B", "H">>), StrOpt(<<"b", "h">>),
     StrOpt(<<"C", "E">>), StrOpt(<<"c", "E">>), StrOpt(<<"B", "Z">>)}

AssignInputs == {MIN_ADR - 1, MIN_ADR, 1, MAX_ADR + 1}

\* Residues given to cycle_decode: the days around the first day of cycles
\* that follow a 4-day, a 7-day and an 8-day festival.
DecodeCycles == {1, 2, 7, 8, 14, 15, 100, 351, 500, 501, 694, 699, 700, 701}

DecodeInputs ==
    {n \in UNION {Window(CycleInGrandCycle_days_prior(c) + 1) : c \in DecodeCycles} :
        n >= 1 /\ n <= DAYS_per_GRAND_CYCLE}

---------------------------------------------------------------------------
(* The state *)

NoCtor == [by |-> "none", adr |-> 0, nums |-> <<>>]

NoRes ==
    [op |-> "none", arg |-> 0, nums |-> <<>>, text |-> <<>>, opt |-> NoneOpt,
     acr |-> 0, em |-> "", lt |-> FALSE, eq |-> FALSE,
     other |-> NoDate, oerr |-> "none"]

\* No object exists and no operation has been called.
Pristine == date = NoDate /\ res = NoRes /\ err = "none"

DecodeIdle == days = 0 /\ cycle = 0 /\ pc = "idle"

Init ==
    /\ date = NoDate
    /\ ctor = NoCtor
    /\ err = "none"
    /\ res = NoRes
    /\ DecodeIdle

\* A construction has returned r (an error, or an object).
Constructed(by, nums, r) ==
    /\ date' = r.date
    /\ err' = r.err
    /\ ctor' = IF r.err = "none"
               THEN [by |-> by, adr |-> r.date.adr, nums |-> nums]
               ELSE NoCtor

---------------------------------------------------------------------------
(* The operations *)

\* CalmarendianDate(a) for an integer a.
New(a) ==
    /\ Pristine
    /\ Constructed("new", <<>>, NewDate(a))
    /\ res' = [NoRes EXCEPT !.op = "new", !.arg = a]
    /\ UNCHANGED <<days, cycle, pc>>

\* CalmarendianDate(x) for an x that int() cannot convert.
NewNotInt ==
    /\ Pristine
    /\ Constructed("new", <<>>, [err |-> "conversion", date |-> NoDate])
    /\ res' = [NoRes EXCEPT !.op = "new_not_int"]
    /\ UNCHANGED <<days, cycle, pc>>

\* CalmarendianDate.from_numbers(gc, c, s, w, d).
FromNumbers(t) ==
    /\ Pristine
    /\ Constructed("from_numbers", t, from_numbers(t[1], t[2], t[3], t[4], t[5]))
    /\ res' = [NoRes EXCEPT !.op = "from_numbers", !.nums = t]
    /\ UNCHANGED <<days, cycle, pc>>

\* CalmarendianDate.from_date_string(s).
FromDateString(s) ==
    /\ Pristine
    /\ Constructed("from_date_string", <<>>, from_date_string(s))
    /\ res' = [NoRes EXCEPT !.op = "from_date_string", !.text = s]
    /\ UNCHANGED <<days, cycle, pc>>

\* date.adr = v: the setter checks v and stores it; the elements stay.
SetAdr(v) ==
    /\ date.exists
    /\ IF AdrInRange(v)
       THEN date' = [date EXCEPT !.adr = v] /\ err' = "none"
       ELSE date' = date /\ err' = "range"
    /\ res' = [NoRes EXCEPT !.op = "set_adr", !.arg = v]
    /\ UNCHANGED <<ctor, days, cycle, pc>>

\* date.absolute_cycle_ref().
AbsoluteCycleRef ==
    /\ date.exists
    /\ LET ref == absolute_cycle_ref(date)
       IN  res' = [NoRes EXCEPT !.op = "acr", !.acr = ref.acr, !.em = ref.em]
    /\ err' = "none"
    /\ UNCHANGED <<date, ctor, days, cycle, pc>>

\* date.grand_cycle_notation().
Gcn ==
    /\ date.exists
    /\ res' = [NoRes EXCEPT !.op = "gcn", !.text = grand_cycle_notation(date)]
    /\ err' = "none"
    /\ UNCHANGED <<date, ctor, days, cycle, pc>>

\* date.common_symbolic_notation(opt).
Csn(opt) ==
    /\ date.exists
    /\ res' = [NoRes EXCEPT !.op = "csn", !.opt = opt,
                            !.text = common_symbolic_notation(date, opt)]
    /\ err' = "none"
    /\ UNCHANGED <<date, ctor, days, cycle, pc>>

\* CalmarendianDate.from_date_string(text) of the string just rendered.
ParseRendered ==
    /\ date.exists
    /\ res.op \in {"gcn", "csn"}
    /\ LET r == from_date_string(res.text)
       IN  res' = [res EXCEPT !.op = IF res.op = "gcn" THEN "parse_gcn" ELSE "parse_csn",
                              !.other = r.date, !.oerr = r.err]
    /\ err' = "none"
    /\ UNCHANGED <<date, ctor, days, cycle, pc>>

\* CalmarendianDate(date.adr): the date's ADR decomposed again.
Copy ==
    /\ date.exists
    /\ LET r == NewDate(date.adr)
       IN  res' = [NoRes EXCEPT !.op = "copy", !.other = r.date, !.oerr = r.err]
    /\ err' = "none"
    /\ UNCHANGED <<date, ctor, days, cycle, pc>>

\* date == other and date < other, for another date made of ADR a: by
\* CalmarendianDate(a), or by from_numbers of the numbers of ADR a.
Compare(a, byNumbers) ==
    /\ date.exists
    /\ AdrInRange(a)
    /\ LET e == elements_from_adr(a)
           r == IF byNumbers
                THEN from_numbers(e.grand_cycle, e.cycle, e.season, e.week, e.day)
                ELSE NewDate(a)
       IN  /\ r.err = "none"
           /\ res' = [NoRes EXCEPT !.op = "cmp", !.arg = a, !.other = r.date,
                                   !.eq = date_eq(date, r.date),
                                   !.lt = date_lt(date, r.date)]
    /\ err' = "none"
    /\ UNCHANGED <<date, ctor, days, cycle, pc>>

\* The object, or the failed construction, is dropped.
Discard ==
    /\ ~Pristine
    /\ date' = NoDate
    /\ ctor' = NoCtor
    /\ err' = "none"
    /\ res' = NoRes
    /\ UNCHANGED <<days, cycle, pc>>

Next ==
    \/ \E a \in AdrInputs : New(a)
    \/ NewNotInt
    \/ \E t \in NumberInputs : FromNumbers(t)
    \/ \E s \in StringInputs : FromDateString(s)
    \/ \E v \in AssignInputs : SetAdr(v)
    \/ AbsoluteCycleRef
    \/ Gcn
    \/ \E opt \in EraMarkerOptions : Csn(opt)
    \/ ParseRendered
    \/ Copy
    \/ \E k \in (0 - CmpReach)..CmpReach, byNumbers \in BOOLEAN :
          Compare(date.adr + k, byNumbers)
    \/ Discard

Spec == Init /\ [][Next]_vars

---------------------------------------------------------------------------
(* cycle_decode, statement by statement *)

InitDecode ==
    /\ date = NoDate
    /\ ctor = NoCtor
    /\ err = "none"
    /\ res = NoRes
    /\ days \in DecodeInputs
    /\ cycle = 0
    /\ pc = "start"

\* cycle = floor(days / CDateConfig.DAYS_per_CYCLE)
DecodeEstimate ==
    /\ pc = "start"
    /\ cycle' = FloorDivCycle(days)
    /\ pc' = "loop"
    /\ UNCHANGED <<date, ctor, err, res, days>>

\* The loop's condition holds: cycle += 1
DecodeScan ==
    /\ pc = "loop"
    /\ scan_continues(cycle, days)
    /\ cycle' = cycle + 1
    /\ UNCHANGED <<date, ctor, err, res, days, pc>>

\* The loop's condition fails: return cycle
DecodeReturn ==
    /\ pc = "loop"
    /\ ~scan_continues(cycle, days)
    /\ pc' = "done"
    /\ UNCHANGED <<date, ctor, err, res, days, cycle>>

NextDecode == DecodeEstimate \/ DecodeScan \/ DecodeReturn

SpecDecode == InitDecode /\ [][NextDecode]_vars

---------------------------------------------------------------------------
(* The claims *)

ElementsOf(d) == <<d.grand_cycle, d.cycle, d.season, d.week, d.day>>

\* The date is as its construction left it: no other ADR was assigned.
AsConstructed == date.exists /\ date.adr = ctor.adr

HasSuffix(s, suffix) ==
    /\ Len(s) >= Len(suffix)
    /\ SubSeq(s, Len(s) - Len(suffix) + 1, Len(s)) = suffix

\* C1: for every integer adr with MIN_ADR <= adr <= MAX_ADR,
\* CalmarendianDate(adr) is constructed without an error, and the sum of its
\* elements' days_prior() and the day number is adr again.
C1_AdrRoundTrip ==
    (res.op = "new" /\ res.arg >= -1718100 /\ res.arg <= 170091999)
        => /\ err = "none"
           /\ date.exists
           /\ date.adr = res.arg
           /\ CycleInGrandCycle_valid(date.cycle)
           /\ ((date.grand_cycle - 1) * 1718101)
                + CycleInGrandCycle_days_prior(date.cycle)
                + Season_days_prior(date.season)
                + Week_days_prior(date.week)
                + date.day = res.arg

\* C1's case: the last day of a grand cycle (day 8 of week 51 of cycle 700)
\* has been decomposed.
C1_Witness ==
    /\ res.op = "new" /\ date.exists
    /\ date.cycle = 700 /\ date.season = 7 /\ date.week = 51 /\ date.day = 8

\* C2: when from_numbers(gc, c, s, w, d) succeeds, decomposing the ADR it
\* composed gives a date whose element numbers are (gc, c, s, w, d).
C2_NumbersRoundTrip ==
    (res.op = "copy" /\ ctor.by = "from_numbers" /\ AsConstructed)
        => /\ res.oerr = "none"
           /\ res.other.exists
           /\ ElementsOf(res.other) = ctor.nums

\* C2's case: a date made by from_numbers in the festival week of a seventh
\* cycle has been decomposed again.
C2_Witness ==
    /\ res.op = "copy" /\ ctor.by = "from_numbers" /\ AsConstructed
    /\ ctor.nums = <<1, 7, 7, 51, 7>>
    /\ res.other.exists

\* C3: CalmarendianDate(adr) makes a date exactly when
\* -1718100 <= adr <= 170091999; outside that range it fails with the range
\* error and makes no date.
C3_AdrRange ==
    res.op = "new"
        => /\ date.exists <=> (res.arg >= -1718100 /\ res.arg <= 170091999)
           /\ date.exists => (err = "none" /\ date.adr = res.arg)
           /\ ~date.exists => err = "range"

\* C3's case: MAX_ADR has been accepted and decomposed.
C3_Witness == res.op = "new" /\ res.arg = MAX_ADR /\ date.exists

\* C4: the ADR of a date never differs from the ADR it had when its
\* construction finished.
C4_AdrImmutable == date.exists => date.adr = ctor.adr

\* C5: absolute_cycle_ref() returns (acr, marker) with
\* acr = |(grand_cycle - 1) * 700 + cycle| >= 0 and marker BZ if
\* grand_cycle <= 0, otherwise BH if 1 <= acr <= 500, otherwise CE.
C5_AbsoluteCycleRef ==
    res.op = "acr"
        => LET n == ((date.grand_cycle - 1) * 700) + date.cycle
           IN  /\ res.acr >= 0
               /\ res.acr = n \/ res.acr = -n
               /\ res.em = (IF date.grand_cycle <= 0 THEN "BZ"
                            ELSE IF res.acr >= 1 /\ res.acr <= 500 THEN "BH"
                            ELSE "CE")

\* C5's case: the reference of a date of cycle 500, the last of the BH era,
\* has been taken.
C5_Witness ==
    /\ res.op = "acr" /\ date.grand_cycle = 1 /\ date.cycle = 500
    /\ res.acr = 500 /\ res.em = "BH"

\* C6: the GCN string of a date is 13 characters long and matches the GCN
\* pattern, and from_date_string of it is a date equal to the date.
C6_GcnRoundTrip ==
    /\ res.op = "gcn" => (Len(res.text) = 13 /\ GCN_DATE_STRING_RE(res.text))
    /\ (res.op = "parse_gcn" /\ AsConstructed)
          => /\ res.oerr = "none"
             /\ res.other.exists
             /\ res.other.adr = date.adr

\* C6's case: the GCN string of ADR 1, 01-001-1-01-1, has been parsed.
C6_Witness ==
    /\ res.op = "parse_gcn" /\ AsConstructed /\ date.adr = 1
    /\ res.text = <<"0", "1", "-", "0", "0", "1", "-", "1", "-", "0", "1", "-", "1">>
    /\ res.other.exists

\* C7: the CSN string of a date, rendered with no era_marker argument,
\* matches the CSN pattern, and from_date_string of it is a date equal to
\* the date.
C7_CsnRoundTrip ==
    /\ (res.op = "csn" /\ ~res.opt.isStr) => CSN_DATE_STRING_RE(res.text)
    /\ (res.op = "parse_csn" /\ ~res.opt.isStr /\ AsConstructed)
          => /\ res.oerr = "none"
             /\ res.other.exists
             /\ res.other.adr = date.adr

OptionIs(opt, spellings) == opt.isStr /\ opt.str \in spellings

\* C8: common_symbolic_notation(era_marker) ends with a space and the name
\* of the date's own era: with no argument, exactly when the era is BZ; with
\* "BH" in any letter case, exactly when the era is BZ or BH; with "CE" in
\* any letter case, always. Otherwise it ends with the day's digit.
C8_CsnEraMarker ==
    res.op = "csn"
        => LET em == absolute_cycle_ref(date).em
               shown == HasSuffix(res.text, <<" ">> \o EraName(em))
               bare == IsDigit(res.text[Len(res.text)])
           IN  /\ shown \/ bare
               /\ ~res.opt.isStr => (shown <=> em = "BZ")
               /\ OptionIs(res.opt, {<<"B", "H">>, <<"b", "h">>, <<"B", "h">>, <<"b", "H">>})
                     => (shown <=> em \in {"BZ", "BH"})
               /\ OptionIs(res.opt, {<<"C", "E">>, <<"c", "e">>, <<"C", "e">>, <<"c", "E">>})
                     => shown

\* C8's case: a BH date has been rendered with era_marker "bh", and shows
\* its marker.
C8_Witness ==
    /\ res.op = "csn" /\ res.opt = StrOpt(<<"b", "h">>)
    /\ absolute_cycle_ref(date).em = "BH"
    /\ HasSuffix(res.text, <<" ", "B", "H">>)

\* C9: a date is less than (equal to) a date made of ADR a, however that
\* date was made, exactly when its own ADR is less than (equal to) a.
C9_OrderByAdr ==
    res.op = "cmp"
        => /\ res.lt <=> date.adr < res.arg
           /\ res.eq <=> date.adr = res.arg

\* C9's case: a date made by from_numbers has been compared with the date
\* of the next day.
C9_Witness ==
    /\ res.op = "cmp" /\ ctor.by = "from_numbers"
    /\ res.arg = date.adr + 1 /\ res.lt /\ ~res.eq

\* C10, as the specification states it: the scan goes on while the next
\* cycle's days_prior() is <= the residue, so that it ends at cycle 700 or
\* with the next cycle's days_prior() above the residue.
C10_ScanWhileAtMost ==
    pc = "done"
        => \/ cycle = 700
           \/ CycleInGrandCycle_days_prior(cycle + 1) > days

\* C10, amended: cycle_decode starts from floor(residue * 700 / 1718101)
\* and goes on one cycle at a time while the next cycle's days_prior() is
\* < the residue, never past cycle 700: every cycle it has moved to has
\* days_prior() < residue, it ends at cycle 700 or with the next cycle's
\* days_prior() >= residue, and its result is the cycle of the date.
C10_ScanWhileLess ==
    pc \in {"loop", "done"}
        => LET estimate == (days * 700) \div 1718101
           IN  /\ cycle >= estimate /\ cycle <= 700
               /\ \A k \in (estimate + 1)..cycle :
                     CycleInGrandCycle_days_prior(k) < days
               /\ pc = "done"
                     => /\ \/ cycle = 700
                           \/ CycleInGrandCycle_days_prior(cycle + 1) >= days
                        /\ cycle = elements_from_adr(days).cycle

\* C10's case: the residue is the last day of cycle 7, which equals
\* days_prior() of cycle 8, and the scan has ended at cycle 7.
C10_Witness ==
    /\ pc = "done" /\ cycle = 7
    /\ days = CycleInGrandCycle_days_prior(8)

===========================================================================
